---- MODULE Spec2Model ----
(***************************************************************************)
(* Loop-TRG octagon optimisation (optimizing.py).                          *)
(*                                                                         *)
(* The model follows one call of loop_optimize(ts_T, d_cut, error_limit).  *)
(* Tensors are represented by their shapes (sequences of axis lengths)     *)
(* and, for the eight ring factors, by the sweep that last wrote them.     *)
(* Every einsum / reshape / slice / matmul / solve of the source is        *)
(* evaluated on the shapes by the operators below; floating point results  *)
(* (costs, error) range over finite values, +inf, -inf and nan.            *)
(***************************************************************************)
EXTENDS Integers, Sequences, FiniteSets, TLC

VARIABLES pc, ts_T, d_cut, error_limit, ragged_ok,
          d, dc, used_cutoff, ts_S_old, ts_S_new,
          error, cost_old, cost_new, loop_round, i,
          order, N_visit, N_shape, W_pairs, W_close, W_shape, env_reads,
          C_calls, C_args, ts_out, failure

vars == <<pc, ts_T, d_cut, error_limit, ragged_ok,
          d, dc, used_cutoff, ts_S_old, ts_S_new,
          error, cost_old, cost_new, loop_round, i,
          order, N_visit, N_shape, W_pairs, W_close, W_shape, env_reads,
          C_calls, C_args, ts_out, failure>>

----------------------------------------------------------------------------
(* Bounds of the exploration *)

MaxD == 4
MaxRounds == 2
MaxCost == 2

DVals == 1 .. MaxD
\* the cutoffs tried for bond dimension n: everything up to n^2 + 1, and 2 n^2
DcutVals(n) == (1 .. (n * n + 1)) \cup {2 * n * n}

----------------------------------------------------------------------------
(* Floating point values: finite, +inf, -inf, nan *)

Fin(n) == [k |-> "fin", v |-> n]
Inf == [k |-> "inf", v |-> 0]
NegInf == [k |-> "ninf", v |-> 0]
NaN == [k |-> "nan", v |-> 0]

CostVals == {Fin(n) : n \in 0 .. MaxCost} \cup {Inf, NaN}
LimitVals == {Fin(n) : n \in 1 .. MaxCost}

\* a > b of IEEE doubles: false as soon as one side is nan
FGt(a, b) ==
    /\ a.k # "nan"
    /\ b.k # "nan"
    /\ \/ a.k = "inf" /\ b.k # "inf"
       \/ a.k = "fin" /\ b.k = "ninf"
       \/ a.k = "fin" /\ b.k = "fin" /\ a.v > b.v

\* a <= b of IEEE doubles: false as soon as one side is nan
FLe(a, b) ==
    /\ a.k # "nan"
    /\ b.k # "nan"
    /\ ~FGt(a, b)

\* a - b
FSub(a, b) ==
    IF a.k = "nan" \/ b.k = "nan" THEN NaN
    ELSE IF a.k = "fin" /\ b.k = "fin" THEN Fin(a.v - b.v)
    ELSE IF a.k = b.k THEN NaN
    ELSE IF a.k = "inf" \/ b.k = "ninf" THEN Inf
    ELSE NegInf

\* np.abs
FAbs(a) ==
    IF a.k = "fin" THEN Fin(IF a.v < 0 THEN -a.v ELSE a.v)
    ELSE IF a.k = "nan" THEN NaN
    ELSE Inf

----------------------------------------------------------------------------
(* Shape algebra of the numpy calls *)

\* the result of a call that raises on its operands' shapes
BadShape == <<-1>>

RECURSIVE Prod(_)
Prod(s) == IF Len(s) = 0 THEN 1 ELSE Head(s) * Prod(Tail(s))

Min(a, b) == IF a <= b THEN a ELSE b

\* np.einsum(ins -> out, ops): every label has one length over all its
\* occurrences; the result has the lengths of the labels of out
Einsum(ins, out, ops) ==
    LET n == Len(ins)
        ok == /\ Len(ops) = n
              /\ \A p \in 1 .. n : Len(ops[p]) = Len(ins[p])
              /\ \A p \in 1 .. n : \A q \in 1 .. Len(ins[p]) :
                    \A p2 \in 1 .. n : \A q2 \in 1 .. Len(ins[p2]) :
                        ins[p][q] = ins[p2][q2] => ops[p][q] = ops[p2][q2]
              /\ \A r \in 1 .. Len(out) :
                    \E p \in 1 .. n : \E q \in 1 .. Len(ins[p]) : ins[p][q] = out[r]
        Dim(l) == LET p == CHOOSE p \in 1 .. n :
                              \E q \in 1 .. Len(ins[p]) : ins[p][q] = l
                      q == CHOOSE q \in 1 .. Len(ins[p]) : ins[p][q] = l
                  IN ops[p][q]
    IN IF ok THEN [r \in 1 .. Len(out) |-> Dim(out[r])] ELSE BadShape

\* a.reshape(new)
Reshape(s, new) == IF s # BadShape /\ Prod(s) = Prod(new) THEN new ELSE BadShape

\* np.matmul of two matrices
MatMul(a, b) ==
    IF Len(a) = 2 /\ Len(b) = 2 /\ a # BadShape /\ b # BadShape /\ a[2] = b[1]
    THEN <<a[1], b[2]>> ELSE BadShape

\* np.linalg.svd(mat, full_matrices=True) of a matrix: shapes of U, s, V
Svd(mat) ==
    [U |-> <<mat[1], mat[1]>>, s |-> <<Min(mat[1], mat[2])>>, V |-> <<mat[2], mat[2]>>]

\* np.linalg.solve(a, b): a square, as many rows in b; the shape of b
Solve(a, b) ==
    IF Len(a) = 2 /\ Len(b) = 2 /\ a[1] = a[2] /\ b[1] = a[1] /\ a[1] > 0
    THEN b ELSE BadShape

----------------------------------------------------------------------------
(* init_S *)

\* a pair of tensors of bond dimension n
SiteTensors(n) == <<(<<n, n, n, n>>), (<<n, n, n, n>>)>>

Cutoff_strict(dd, dcut) ==
    LET d2 == dd * dd
    IN IF dcut > d2 THEN [dc |-> d2, used_cutoff |-> 0]
       ELSE [dc |-> dcut, used_cutoff |-> 1]

\* lines 20-26: the kept dimension and the truncation flag
Cutoff(dd, dcut) ==
    LET d2 == dd * dd
    IN IF dcut >= d2 THEN [dc |-> d2, used_cutoff |-> 0]
       ELSE [dc |-> dcut, used_cutoff |-> 1]

\* lines 34-48: the two factors of one d2 x d2 matrix
SvdSplit(mat, dd, c) ==
    LET f == Svd(mat)
        s == <<Min(c, f.s[1])>>
        diag_s == <<s[1], s[1]>>
        mat_U == <<f.U[1], Min(c, f.U[2])>>
        mat_V == <<Min(c, f.V[1]), f.V[2]>>
        mat1 == MatMul(mat_U, diag_s)
        mat2 == MatMul(diag_s, mat_V)
    IN <<Reshape(mat1, <<dd, dd, c>>), Reshape(mat2, <<c, dd, dd>>)>>

DerivedFactors_swapped(R) ==
    R \o << Einsum(<< <<"n","k","b">> >>, <<"k","b","n">>, << R[2] >>),
            Einsum(<< <<"a","j","n">> >>, <<"n","a","j">>, << R[1] >>),
            Einsum(<< <<"r","n","c">> >>, <<"n","c","r">>, << R[4] >>),
            Einsum(<< <<"b","m","r">> >>, <<"b","m","r">>, << R[3] >>) >>

\* lines 52-55: S[4..7] are axis permutations of S[1], S[0], S[3], S[2]
\* (R is 1-based: R[k+1] is ts_Result[k])
DerivedFactors(R) ==
    R \o << Einsum(<< <<"n","k","b">> >>, <<"k","b","n">>, << R[2] >>),
            Einsum(<< <<"a","j","n">> >>, <<"n","a","j">>, << R[1] >>),
            Einsum(<< <<"r","n","c">> >>, <<"n","c","r">>, << R[4] >>),
            Einsum(<< <<"b","m","r">> >>, <<"r","b","m">>, << R[3] >>) >>

\* init_S(ts_T, d_cut): the shapes of the eight factors (1-based), dc and
\* the flag
init_S(T, dcut) ==
    LET dd == T[1][1]
        d2 == dd * dd
        cut == Cutoff(dd, dcut)
        mat0 == Reshape(T[1], <<d2, d2>>)
        mat1 == Reshape(Einsum(<< <<"l","i","j","k">> >>, <<"i","j","k","l">>, << T[2] >>),
                        <<d2, d2>>)
        R == SvdSplit(mat0, dd, cut.dc) \o SvdSplit(mat1, dd, cut.dc)
    IN [S |-> DerivedFactors(R), d |-> dd, dc |-> cut.dc, used_cutoff |-> cut.used_cutoff]

----------------------------------------------------------------------------
(* const_C, tensor_N, tensor_W, optimize_S, cost_func *)

num == 8
Ring == 0 .. (num - 1)

\* lines 63-67: the four corner views of TA, TB (1-based: [j+1] is corner j)
CornerViews(T) ==
    << T[1],
       Einsum(<< <<"c","b","m","n">> >>, <<"b","m","n","c">>, << T[2] >>),
       Einsum(<< <<"q","d","c","p">> >>, <<"c","p","q","d">>, << T[1] >>),
       Einsum(<< <<"l","i","a","d">> >>, <<"d","l","i","a">>, << T[2] >>) >>

RECURSIVE ConstCLoop(_, _, _)
ConstCLoop(L, c, ts_C) ==
    IF c > 3 THEN ts_C
    ELSE LET ts_Temp == Einsum(<< <<"e","b","c","h">>, <<"a","b","c","d">> >>,
                               <<"e","h","a","d">>, << L[c + 1], L[c + 1] >>)
         IN ConstCLoop(L, c + 1,
               IF c = 0 THEN ts_Temp
               ELSE IF c = 3
                    THEN Einsum(<< <<"h","e","d","a">>, <<"e","h","a","d">> >>,
                                <<>>, << ts_C, ts_Temp >>)
                    ELSE Einsum(<< <<"m","e","n","a">>, <<"e","h","a","d">> >>,
                                <<"m","h","n","d">>, << ts_C, ts_Temp >>))

\* const_C(ts_T): the shape of the constant (a scalar: <<>>)
const_C(T) == ConstCLoop(CornerViews(T), 0, <<>>)

RingIndex_shifted(j, n) == IF j <= n - 1 THEN j ELSE j - n + 1

\* lines 87-90: the ring position k visited at loop value j
RingIndex(j, n) == IF j <= n - 1 THEN j ELSE j - n

RECURSIVE TensorNLoop(_, _, _, _, _)
TensorNLoop(p, S, j, ts_N, visited) ==
    IF j >= p + num THEN [shape |-> ts_N, visited |-> visited]
    ELSE LET k == RingIndex(j, num)
             ts_A == Einsum(<< <<"i","c","j">>, <<"s","c","t">> >>,
                            <<"i","j","s","t">>, << S[k].shape, S[k].shape >>)
         IN TensorNLoop(p, S, j + 1,
               IF j = p + 1 THEN ts_A
               ELSE Einsum(<< <<"i","j","s","t">>, <<"j","k","t","u">> >>,
                           <<"i","k","s","u">>, << ts_N, ts_A >>),
               Append(visited, k))

\* tensor_N(i, ts_S): the shape of N_i and the positions contracted, in order
tensor_N(p, S) == TensorNLoop(p, S, p + 1, <<>>, <<>>)

ClosingFactor_outer(p) == IF p % 2 = 0 THEN (p + num - 1) % num ELSE (p + 1) % num

\* lines 132-137: the single factor that closes W_i (i+1 for even, i-1 for odd i)
ClosingFactor(p) == IF p % 2 = 0 THEN p + 1 ELSE p - 1

RECURSIVE TensorWLoop(_, _, _, _, _, _)
TensorWLoop(pair, S, L, q, ts_Complete, pairs) ==
    IF q >= pair + 4 THEN [shape |-> ts_Complete, pairs |-> pairs]
    ELSE LET j == IF q <= 3 THEN q ELSE q - 4
             ts_B == Einsum(<< <<"d","p","m">>, <<"m","q","n">>, <<"g","p","q","r">> >>,
                            <<"d","n","g","r">>,
                            << S[2 * j].shape, S[2 * j + 1].shape, L[j + 1] >>)
         IN TensorWLoop(pair, S, L, q + 1,
               IF q = pair + 1 THEN ts_B
               ELSE Einsum(<< <<"b","n","g","r">>, <<"n","d","r","f">> >>,
                           <<"b","d","g","f">>, << ts_Complete, ts_B >>),
               Append(pairs, j))

\* tensor_W(i, ts_S, ts_T): the shape of W_i, the pairs contracted into the
\* complete part, in order, and the factor closing the incomplete part
tensor_W(p, S, T) ==
    LET pair == p \div 2
        L == CornerViews(T)
        comp == TensorWLoop(pair, S, L, pair + 1, <<>>, <<>>)
        c == ClosingFactor(p)
        ts_W == IF p % 2 = 0
                THEN LET ts_C == Einsum(<< <<"b","e","d">>, <<"f","c","e","g">> >>,
                                        <<"b","d","f","c","g">>,
                                        << S[c].shape, L[pair + 1] >>)
                     IN Einsum(<< <<"b","d","f","c","g">>, <<"d","a","g","f">> >>,
                               <<"b","a","c">>, << ts_C, comp.shape >>)
                ELSE LET ts_C == Einsum(<< <<"d","e","a">>, <<"f","e","c","g">> >>,
                                        <<"d","a","f","c","g">>,
                                        << S[c].shape, L[pair + 1] >>)
                     IN Einsum(<< <<"b","d","g","f">>, <<"d","a","f","c","g">> >>,
                               <<"b","a","c">>, << comp.shape, ts_C >>)
    IN [shape |-> ts_W, pairs |-> comp.pairs, close |-> c]

optimize_S_unpermuted(ts_N, ts_W) ==
    IF Len(ts_N) # 4 \/ Len(ts_W) # 3 THEN BadShape
    ELSE LET mat_N == Reshape(ts_N, <<ts_N[1] * ts_N[2], ts_N[3] * ts_N[4]>>)
             mat_W == Reshape(ts_W, <<ts_W[1] * ts_W[2], ts_W[3]>>)
             mat_S == Solve(mat_N, mat_W)
         IN Reshape(mat_S, <<ts_N[3], ts_N[4], ts_W[3]>>)

\* optimize_S(ts_N, ts_W): the shape of the solution of a regular system
optimize_S(ts_N, ts_W) ==
    IF Len(ts_N) # 4 \/ Len(ts_W) # 3 THEN BadShape
    ELSE LET mat_N == Reshape(ts_N, <<ts_N[1] * ts_N[2], ts_N[3] * ts_N[4]>>)
             mat_W == Reshape(ts_W, <<ts_W[1] * ts_W[2], ts_W[3]>>)
             mat_S == Solve(mat_N, mat_W)
             ts_S == Reshape(mat_S, <<ts_N[3], ts_N[4], ts_W[3]>>)
         IN Einsum(<< <<"c","d","e">> >>, <<"d","e","c">>, << ts_S >>)

cost_func_cached(p, S, T) ==
    LET N == tensor_N(p, S)
        W == tensor_W(p, S, T)
        term2 == Einsum(<< <<"c","e","a">>, <<"a","c","b","d">>, <<"d","e","b">> >>,
                        <<>>, << S[p].shape, N.shape, S[p].shape >>)
        term3 == Einsum(<< <<"a","c","b">>, <<"b","a","c">> >>, <<>>,
                        << S[p].shape, W.shape >>)
    IN [const_calls |-> <<>>, terms |-> << <<>>, term2, term3, term3 >>]

\* cost_func(i, ts_S, ts_T): the arguments of the calls of const_C it makes and
\* the shapes of its four terms
cost_func(p, S, T) ==
    LET term1 == const_C(T)
        N == tensor_N(p, S)
        W == tensor_W(p, S, T)
        term2 == Einsum(<< <<"c","e","a">>, <<"a","c","b","d">>, <<"d","e","b">> >>,
                        <<>>, << S[p].shape, N.shape, S[p].shape >>)
        term3 == Einsum(<< <<"a","c","b">>, <<"b","a","c">> >>, <<>>,
                        << S[p].shape, W.shape >>)
        term4 == Einsum(<< <<"a","c","b">>, <<"b","a","c">> >>, <<>>,
                        << S[p].shape, W.shape >>)
    IN [const_calls |-> << T >>, terms |-> << term1, term2, term3, term4 >>]

\* np.conj(ts_S) of a list of arrays: arrays of one shape stack into one
\* array; arrays of different shapes make an object array on a NumPy that
\* accepts ragged lists and raise ValueError on one that does not
ConjRaises(S) == ~ragged_ok /\ \E a \in Ring : \E b \in Ring : S[a].shape # S[b].shape

----------------------------------------------------------------------------
(* Reconstruction (lines 213-214) *)

ReconstructTA_outer(S) ==
    Einsum(<< <<"b","a","l">>, <<"i","c","b">>, <<"d","c","j">>, <<"k","a","d">> >>,
           <<"a","i","j","k">>,
           << S[4].shape, S[3].shape, S[0].shape, S[7].shape >>)

\* line 213
ReconstructTA(S) ==
    Einsum(<< <<"b","a","l">>, <<"i","c","b">>, <<"d","c","j">>, <<"k","a","d">> >>,
           <<"l","i","j","k">>,
           << S[4].shape, S[3].shape, S[0].shape, S[7].shape >>)

\* line 214
ReconstructTB(S) ==
    Einsum(<< <<"l","b","a">>, <<"c","b","i">>, <<"j","d","c">>, <<"a","d","k">> >>,
           <<"l","i","j","k">>,
           << S[1].shape, S[6].shape, S[5].shape, S[2].shape >>)

----------------------------------------------------------------------------
(* loop_optimize *)

NoFactors == [k \in Ring |-> [shape |-> <<>>, ver |-> 0]]

Init ==
    /\ pc = "call"
    /\ \E n \in DVals :
          /\ ts_T = SiteTensors(n)
          /\ d_cut \in DcutVals(n)
    /\ error_limit \in LimitVals
    /\ ragged_ok \in BOOLEAN
    /\ d = 0
    /\ dc = 0
    /\ used_cutoff = 0
    /\ ts_S_old = NoFactors
    /\ ts_S_new = NoFactors
    /\ error = Fin(0)
    /\ cost_old = Fin(0)
    /\ cost_new = Fin(0)
    /\ loop_round = 0
    /\ i = 0
    /\ order = <<>>
    /\ N_visit = <<>>
    /\ N_shape = <<>>
    /\ W_pairs = <<>>
    /\ W_close = 0
    /\ W_shape = <<>>
    /\ env_reads = {}
    /\ C_calls = 0
    /\ C_args = {}
    /\ ts_out = <<>>
    /\ failure = "none"

\* lines 176-187
Initialize ==
    /\ pc = "call"
    /\ \E r \in {init_S(ts_T, d_cut)} :
       \E S0 \in {[k \in Ring |-> [shape |-> r.S[k + 1], ver |-> 0]]} :
          /\ error' = Inf
          /\ ts_S_old' = S0
          /\ ts_S_new' = S0
          /\ d' = r.d
          /\ dc' = r.dc
          /\ used_cutoff' = r.used_cutoff
    /\ loop_round' = 0
    /\ pc' = "while"
    /\ UNCHANGED <<ts_T, d_cut, error_limit, ragged_ok, cost_old, cost_new, i,
                   order, N_visit, N_shape, W_pairs, W_close, W_shape, env_reads,
                   C_calls, C_args, ts_out, failure>>

\* line 188, the test holds
WhileEnter ==
    /\ pc = "while"
    /\ FGt(error, error_limit)
    /\ loop_round < MaxRounds
    /\ pc' = "cost_old"
    /\ UNCHANGED <<ts_T, d_cut, error_limit, ragged_ok, d, dc, used_cutoff,
                   ts_S_old, ts_S_new, error, cost_old, cost_new, loop_round, i,
                   order, N_visit, N_shape, W_pairs, W_close, W_shape, env_reads,
                   C_calls, C_args, ts_out, failure>>

\* line 188, the test fails
WhileExit ==
    /\ pc = "while"
    /\ ~FGt(error, error_limit)
    /\ pc' = "reconstruct"
    /\ UNCHANGED <<ts_T, d_cut, error_limit, ragged_ok, d, dc, used_cutoff,
                   ts_S_old, ts_S_new, error, cost_old, cost_new, loop_round, i,
                   order, N_visit, N_shape, W_pairs, W_close, W_shape, env_reads,
                   C_calls, C_args, ts_out, failure>>

IsScalar(terms) == \A q \in 1 .. Len(terms) : terms[q] = <<>>

\* line 189; the value is the one of line 194 of the sweep before, the
\* factors being the same
CostOld ==
    /\ pc = "cost_old"
    /\ ~ConjRaises(ts_S_new)
    /\ \E c \in {cost_func(0, ts_S_new, ts_T)} :
          /\ C_calls' = C_calls + Len(c.const_calls)
          /\ C_args' = C_args \cup {c.const_calls[q] : q \in 1 .. Len(c.const_calls)}
          /\ IF IsScalar(c.terms)
             THEN /\ cost_old' \in (IF loop_round = 0 THEN CostVals ELSE {cost_new})
                  /\ pc' = "sweep"
                  /\ failure' = failure
             ELSE /\ cost_old' = cost_old
                  /\ pc' = "failed"
                  /\ failure' = "ValueError"
    /\ i' = 0
    /\ order' = <<>>
    /\ UNCHANGED <<ts_T, d_cut, error_limit, ragged_ok, d, dc, used_cutoff,
                   ts_S_old, ts_S_new, error, cost_new, loop_round,
                   N_visit, N_shape, W_pairs, W_close, W_shape, env_reads, ts_out>>

\* line 189, np.conj (line 84) raising after const_C (line 158) returned
ConjFail ==
    /\ pc = "cost_old"
    /\ ConjRaises(ts_S_new)
    /\ C_calls' = C_calls + 1
    /\ C_args' = C_args \cup {ts_T}
    /\ pc' = "failed"
    /\ failure' = "ValueError"
    /\ UNCHANGED <<ts_T, d_cut, error_limit, ragged_ok, d, dc, used_cutoff,
                   ts_S_old, ts_S_new, error, cost_old, cost_new, loop_round, i,
                   order, N_visit, N_shape, W_pairs, W_close, W_shape, env_reads,
                   ts_out>>

SweepFactors_stale == ts_S_old

\* lines 191-192: the factor list handed to tensor_N and tensor_W
SweepFactors == ts_S_new

\* lines 190-193, the system being regular
UpdatePosition ==
    /\ pc = "sweep"
    /\ i < num
    /\ \E S \in {SweepFactors} :
       \E N \in {tensor_N(i, S)} :
       \E W \in {tensor_W(i, S, ts_T)} :
       \E sol \in {optimize_S(N.shape, W.shape)} :
       LET read == {N.visited[q] : q \in 1 .. Len(N.visited)}
                   \cup {2 * W.pairs[q] : q \in 1 .. Len(W.pairs)}
                   \cup {2 * W.pairs[q] + 1 : q \in 1 .. Len(W.pairs)}
                   \cup {W.close}
       IN /\ N_visit' = N.visited
          /\ N_shape' = N.shape
          /\ W_pairs' = W.pairs
          /\ W_close' = W.close
          /\ W_shape' = W.shape
          /\ env_reads' = {<<k, S[k].ver>> : k \in read}
          /\ IF sol # BadShape
             THEN /\ ts_S_new' = [ts_S_new EXCEPT ![i] = [shape |-> sol, ver |-> loop_round + 1]]
                  /\ order' = Append(order, i)
                  /\ i' = i + 1
                  /\ pc' = IF i + 1 = num THEN "cost_new" ELSE "sweep"
                  /\ failure' = failure
             ELSE /\ UNCHANGED <<ts_S_new, order, i>>
                  /\ pc' = "failed"
                  /\ failure' = "ValueError"
    /\ UNCHANGED <<ts_T, d_cut, error_limit, ragged_ok, d, dc, used_cutoff,
                   ts_S_old, error, cost_old, cost_new, loop_round,
                   C_calls, C_args, ts_out>>

SolveFail_swallowed ==
    /\ pc = "sweep"
    /\ i < num
    /\ failure' = "LinAlgError"
    /\ i' = i + 1
    /\ pc' = IF i + 1 = num THEN "cost_new" ELSE "sweep"
    /\ UNCHANGED <<ts_T, d_cut, error_limit, ragged_ok, d, dc, used_cutoff,
                   ts_S_old, ts_S_new, error, cost_old, cost_new, loop_round,
                   order, N_visit, N_shape, W_pairs, W_close, W_shape, env_reads,
                   C_calls, C_args, ts_out>>

\* line 193 with np.linalg.solve (line 149) raising LinAlgError on a singular
\* mat_N: nothing in optimize_S or loop_optimize catches it
SolveFail ==
    /\ pc = "sweep"
    /\ i < num
    /\ failure' = "LinAlgError"
    /\ pc' = "failed"
    /\ UNCHANGED <<ts_T, d_cut, error_limit, ragged_ok, d, dc, used_cutoff,
                   ts_S_old, ts_S_new, error, cost_old, cost_new, loop_round, i,
                   order, N_visit, N_shape, W_pairs, W_close, W_shape, env_reads,
                   C_calls, C_args, ts_out>>

\* lines 194-197
CostNew ==
    /\ pc = "cost_new"
    /\ \E c \in {cost_func(0, ts_S_new, ts_T)} :
          /\ C_calls' = C_calls + Len(c.const_calls)
          /\ C_args' = C_args \cup {c.const_calls[q] : q \in 1 .. Len(c.const_calls)}
          /\ IF IsScalar(c.terms)
             THEN /\ cost_new' \in CostVals
                  /\ error' = FAbs(FSub(cost_new', cost_old))
                  /\ loop_round' = loop_round + 1
                  /\ pc' = "while"
                  /\ failure' = failure
             ELSE /\ UNCHANGED <<cost_new, error, loop_round>>
                  /\ pc' = "failed"
                  /\ failure' = "ValueError"
    /\ UNCHANGED <<ts_T, d_cut, error_limit, ragged_ok, d, dc, used_cutoff,
                   ts_S_old, ts_S_new, cost_old, i,
                   order, N_visit, N_shape, W_pairs, W_close, W_shape, env_reads,
                   ts_out>>

\* lines 213-215
Reconstruct ==
    /\ pc = "reconstruct"
    /\ \E ts_TA \in {ReconstructTA(ts_S_new)} :
       \E ts_TB \in {ReconstructTB(ts_S_new)} :
          IF ts_TA # BadShape /\ ts_TB # BadShape
          THEN /\ ts_out' = <<ts_TA, ts_TB>>
               /\ pc' = "done"
               /\ failure' = failure
          ELSE /\ ts_out' = ts_out
               /\ pc' = "failed"
               /\ failure' = "ValueError"
    /\ UNCHANGED <<ts_T, d_cut, error_limit, ragged_ok, d, dc, used_cutoff,
                   ts_S_old, ts_S_new, error, cost_old, cost_new, loop_round, i,
                   order, N_visit, N_shape, W_pairs, W_close, W_shape, env_reads,
                   C_calls, C_args>>

Next ==
    \/ Initialize
    \/ WhileEnter
    \/ WhileExit
    \/ CostOld
    \/ ConjFail
    \/ UpdatePosition
    \/ SolveFail
    \/ CostNew
    \/ Reconstruct

Spec == Init /\ [][Next]_vars

----------------------------------------------------------------------------
(* Properties *)

Last(q) == q[Len(q)]

\* the shape the ring factor at position k has for bond dimension d and kept
\* dimension dc
FactorShape(k) == IF k % 2 = 0 THEN <<d, d, dc>> ELSE <<dc, d, d>>

TestedInput == d \in {2, 3, 4} /\ d_cut \in {1, d * d, 2 * d * d}

C2_LeavesLoopOnlyWhenConverged ==
    /\ (pc = "while" /\ loop_round = 0) => error = Inf
    /\ (pc = "while" /\ loop_round > 0) => error = FAbs(FSub(cost_new, cost_old))
    /\ pc \in {"reconstruct", "done"} => FLe(error, error_limit)

\* C3: in every sweep the positions are updated in the order 0,1,...,7, and the
\* environment of position p is read from the factors as they are then:
\* positions below p already written by this sweep, positions above p as the
\* sweep before (or init_S) left them.
C3_GaussSeidelOrder ==
    /\ \A q \in 1 .. Len(order) : order[q] = q - 1
    /\ order # <<>> =>
          LET p == Last(order)
              r == ts_S_new[p].ver
          IN /\ pc \in {"sweep", "cost_new"} => r = loop_round + 1
             /\ {e[1] : e \in env_reads} = Ring \ {p}
             /\ \A e \in env_reads : e[2] = IF e[1] < p THEN r ELSE r - 1

C3_Witness ==
    /\ pc = "sweep"
    /\ loop_round = 1
    /\ order = <<0, 1, 2, 3>>
    /\ <<0, 2>> \in env_reads
    /\ <<7, 1>> \in env_reads

\* C4: init_S keeps dc = min(d_cut, d^2) and returns used_cutoff = 1 exactly
\* when d_cut < d^2 (0 when d_cut >= d^2, the boundary d_cut = d^2 included).
C4_CutoffFlag ==
    pc # "call" =>
        /\ d = ts_T[1][1]
        /\ dc = Min(d_cut, d * d)
        /\ used_cutoff \in {0, 1}
        /\ used_cutoff = 1 <=> d_cut < d * d

C4_Witness ==
    /\ pc # "call"
    /\ d = 2
    /\ d_cut = d * d
    /\ dc = 4
    /\ used_cutoff = 0

\* C5: once the linear solve has failed at some position, the call has ended
\* in failure: no step follows (no retry, no further update or sweep, no
\* reconstruction) and no output tensors exist.
C5_SolveFailureEndsCall ==
    failure = "LinAlgError" =>
        /\ pc = "failed"
        /\ ts_out = <<>>
        /\ ~ENABLED Next

C5_Witness ==
    /\ failure = "LinAlgError"
    /\ loop_round = 1
    /\ order = <<0, 1, 2>>
    /\ ts_S_new[2].ver = 2
    /\ ts_S_new[3].ver = 1

\* the three pairs that tensor_W contracts into the complete part for
\* position p are the pairs other than p's own
OtherPairsContracted(p) ==
    /\ Len(W_pairs) = 3
    /\ {W_pairs[q] : q \in 1 .. 3} = (0 .. 3) \ {p \div 2}

\* C6 (as stated): W_i is closed with the conjugate of the neighbour of i that
\* is not i's pair partner.
C6_ClosedWithOuterNeighbour ==
    order # <<>> =>
        LET p == Last(order)
        IN /\ OtherPairsContracted(p)
           /\ W_close \in {(p + 1) % num, (p + num - 1) % num}
           /\ W_close \notin {2 * (p \div 2), 2 * (p \div 2) + 1}

\* C6 (amended): W_i is closed with the conjugate of i's own pair partner (the
\* other member of the pair (2*(i//2), 2*(i//2)+1)) and the corner tensor of
\* that pair, after the three other pairs have been contracted.
C6_ClosedWithPairPartner ==
    order # <<>> =>
        LET p == Last(order)
        IN /\ OtherPairsContracted(p)
           /\ W_close \in {2 * (p \div 2), 2 * (p \div 2) + 1} \ {p}

C6_Witness ==
    /\ order = <<0, 1, 2, 3, 4, 5>>
    /\ W_close = 4
    /\ W_pairs = <<3, 0, 1>>

\* C7: after init_S and after every position update the factor at every even
\* position has shape (d,d,dc) and at every odd position (dc,d,d); N_i
\* reshapes to a square matrix of side d*dc and W_i to a matrix of d*dc rows.
C7_FactorShapes ==
    pc # "call" =>
        /\ \A k \in Ring : ts_S_new[k].shape = FactorShape(k)
        /\ order # <<>> =>
              /\ Len(N_shape) = 4
              /\ N_shape[1] * N_shape[2] = d * dc
              /\ N_shape[3] * N_shape[4] = d * dc
              /\ Len(W_shape) = 3
              /\ W_shape[1] * W_shape[2] = d * dc

C7_Witness ==
    /\ pc = "cost_new"
    /\ loop_round = 1
    /\ d = 2
    /\ dc = 3
    /\ \A k \in Ring : ts_S_new[k].ver = 2
    /\ ts_S_new[6].shape = <<2, 2, 3>>
    /\ ts_S_new[7].shape = <<3, 2, 2>>

\* the axis over which S[k] and S[(k+1) mod 8] are contracted in tensor_N
RingAxis(k) ==
    << ts_S_new[k].shape[3], ts_S_new[(k + 1) % num].shape[1] >>

\* C8 (as stated): for every position the ring axis shared with the successor
\* has dimension dc, the wrap-around 7 -> 0 included.
C8_RingAxisIsCutoff ==
    pc # "call" => \A k \in Ring : RingAxis(k) = <<dc, dc>>

\* C8 (amended): the ring axis shared by S[i] and S[(i+1) mod 8] has dimension
\* dc for even i (the two factors of one SVD) and dimension d for odd i, the
\* wrap-around 7 -> 0 included.
C8_RingAxisAlternates ==
    pc # "call" =>
        \A k \in Ring : RingAxis(k) = IF k % 2 = 0 THEN <<dc, dc>> ELSE <<d, d>>

C8_Witness ==
    /\ pc = "sweep"
    /\ order = <<0>>
    /\ d = 3
    /\ dc = 2
    /\ RingAxis(7) = <<3, 3>>
    /\ RingAxis(0) = <<2, 2>>

\* C9: tensor_N(i) contracts the positions (i+1) mod 8, ..., (i+7) mod 8 in
\* that order: every position but i once, i never, all within 0..7.
C9_RingWalk ==
    order # <<>> =>
        LET p == Last(order)
        IN /\ N_visit = [q \in 1 .. (num - 1) |-> (p + q) % num]
           /\ \A q \in 1 .. Len(N_visit) : N_visit[q] \in Ring \ {p}
           /\ Cardinality({N_visit[q] : q \in 1 .. Len(N_visit)}) = num - 1

C9_Witness ==
    /\ order = <<0, 1, 2, 3, 4, 5>>
    /\ N_visit = <<6, 7, 0, 1, 2, 3, 4>>

\* C10 (as stated): the constant C is computed exactly once per call.
C10_ComputedOnce ==
    pc = "done" => C_calls = 1

\* C10 (amended): C is recomputed by const_C inside every cost evaluation
\* (twice per sweep), each time from the unmodified inputs ts_T.
C10_RecomputedPerCost ==
    /\ C_calls = 2 * loop_round
                   + (IF pc \in {"sweep", "cost_new", "failed"} THEN 1 ELSE 0)
    /\ C_args \subseteq {ts_T}
    /\ C_calls > 0 => C_args = {ts_T} /\ const_C(ts_T) = <<>>

C10_Witness ==
    /\ pc = "done"
    /\ loop_round = 2
    /\ C_calls = 4

====
